---------------------------- MODULE Spec2Model ----------------------------
(***************************************************************************)
(* UAV swarm simulation (ECE6122 lab 7): the control law of control.h, the *)
(* agent runtime and the collision pass of simulation.cpp.                 *)
(*                                                                         *)
(* Numbers.  A C++ double that carries a physical quantity (a position, a  *)
(* velocity, a force, a gain, an error) is a fixed-point integer with      *)
(* Unit steps per 1.0; every product, quotient and square root is rounded  *)
(* toward zero.  The phase clock ControlState::timeInPhase is compared     *)
(* against thresholds it reaches only by repeated addition of dt, so there *)
(* the rounding of binary64 decides the tick of the transition: the clock  *)
(* is kept as an exact binary64 value (F64 below), and dt has two images,  *)
(* dt.fx (fixed point) and dt.f64 (binary64).                              *)
(***************************************************************************)
EXTENDS Integers, Sequences, FiniteSets, TLC

(***************************************************************************)
(* Fixed point                                                             *)
(***************************************************************************)
\* fixed-point steps per 1.0
Unit == 10 * 10 * 10

Abs(a) == IF a < 0 THEN -a ELSE a

Sgn(a) == IF a < 0 THEN -1 ELSE 1

Max2(a, b) == IF a >= b THEN a ELSE b

\* double * double
FxMul(a, b) ==
    LET p  == Abs(a)
        q  == Abs(b)
        pa == p \div Unit
        ra == p % Unit
        qb == q \div Unit
        rb == q % Unit
    IN  Sgn(a) * Sgn(b) * (pa * qb * Unit + pa * rb + ra * qb + (ra * rb) \div Unit)

\* double / double, the divisor not zero
FxDiv(a, b) == Sgn(a) * Sgn(b) * ((Abs(a) * Unit) \div Abs(b))

\* std::clamp(v, lo, hi)
Clamp(v, lo, hi) == IF v < lo THEN lo ELSE IF hi < v THEN hi ELSE v

RECURSIVE SqrtSearch(_, _, _)
\* the largest r in lo..hi with r * r <= n
SqrtSearch(n, lo, hi) ==
    IF lo >= hi THEN lo
    ELSE LET mid == (lo + hi + 1) \div 2
         IN  IF mid * mid <= n THEN SqrtSearch(n, mid, hi)
             ELSE SqrtSearch(n, lo, mid - 1)

\* std::sqrt on a sum of squares of fixed-point numbers
FxSqrt(n) == SqrtSearch(n, 0, 46340)

(***************************************************************************)
(* Vec3                                                                    *)
(***************************************************************************)
Vec3(x_, y_, z_) == [x |-> x_, y |-> y_, z |-> z_]

VAdd(a, o) == Vec3(a.x + o.x, a.y + o.y, a.z + o.z)

VSub(a, o) == Vec3(a.x - o.x, a.y - o.y, a.z - o.z)

VMul(a, s) == Vec3(FxMul(a.x, s), FxMul(a.y, s), FxMul(a.z, s))

VDiv(a, s) == Vec3(FxDiv(a.x, s), FxDiv(a.y, s), FxDiv(a.z, s))

\* the largest component a sum of three squares can take without leaving
\* the integers of the model checker
SquareSafe == 25 * Unit

RECURSIVE mag(_)
\* Vec3::mag; long vectors are measured at a quarter of their length
mag(v) ==
    IF Max2(Abs(v.x), Max2(Abs(v.y), Abs(v.z))) <= SquareSafe
    THEN FxSqrt(v.x * v.x + v.y * v.y + v.z * v.z)
    ELSE 4 * mag(Vec3(v.x \div 4, v.y \div 4, v.z \div 4))

\* the thresholds 1e-8, 1e-6 and 1e-3 on a magnitude: below one fixed-point
\* step, which for a magnitude means zero
Eps8 == 1
Eps6 == 1
Eps3 == 1

normalized(v) ==
    LET m == mag(v)
    IN  IF m < Eps8 THEN Vec3(0, 0, 0) ELSE VDiv(v, m)

distance(a, b) == mag(VSub(a, b))

(***************************************************************************)
(* binary64 values of the phase clock: a non-negative double below 32 that *)
(* is a multiple of 2^-59, as four 16-bit limbs, least significant first   *)
(***************************************************************************)
Limb == 2 ^ 16

F64Zero == <<0, 0, 0, 0>>

\* 0.01 = 0x1.47ae147ae147bp-7
F64Cent == <<5243, 18350, 31457, 20>>

\* 0.5 = 2^58 steps
F64Half == <<0, 0, 0, 1024>>

F64Five == <<0, 0, 0, 10240>>

\* n * 0.5 for small n, exact
F64Halves(n) == <<0, 0, 0, 1024 * n>>

RECURSIVE BitLen(_)
BitLen(n) == IF n = 0 THEN 0 ELSE 1 + BitLen(n \div 2)

\* the number of significant bits of a limb value
F64Bits(t) ==
    IF t[4] # 0 THEN 48 + BitLen(t[4])
    ELSE IF t[3] # 0 THEN 32 + BitLen(t[3])
    ELSE IF t[2] # 0 THEN 16 + BitLen(t[2])
    ELSE BitLen(t[1])

\* the exact sum, before rounding
F64RawAdd(a, b) ==
    LET s1 == a[1] + b[1]
        s2 == a[2] + b[2] + s1 \div Limb
        s3 == a[3] + b[3] + s2 \div Limb
        s4 == a[4] + b[4] + s3 \div Limb
    IN  <<s1 % Limb, s2 % Limb, s3 % Limb, s4>>

\* round to 53 significant bits, ties to even (at most 11 bits are dropped)
F64Round(t) ==
    LET d == F64Bits(t) - 53
    IN  IF d <= 0 THEN t
        ELSE LET step == 2 ^ d
                 low  == t[1] % step
                 kept == <<t[1] - low, t[2], t[3], t[4]>>
                 odd  == (t[1] \div step) % 2 = 1
                 up   == low * 2 > step \/ (low * 2 = step /\ odd)
             IN  IF up THEN F64RawAdd(kept, <<step, 0, 0, 0>>) ELSE kept

\* double + double
F64Add(a, b) == F64Round(F64RawAdd(a, b))

\* a < b
F64Less(a, b) ==
    \/ a[4] < b[4]
    \/ a[4] = b[4] /\ a[3] < b[3]
    \/ a[4] = b[4] /\ a[3] = b[3] /\ a[2] < b[2]
    \/ a[4] = b[4] /\ a[3] = b[3] /\ a[2] = b[2] /\ a[1] < b[1]


(***************************************************************************)
(* PIDController                                                           *)
(***************************************************************************)
PIDController(kp_, ki_, kd_, integral_limit_, output_limit_) ==
    [kp |-> kp_, ki |-> ki_, kd |-> kd_,
     integral |-> 0, prev_error |-> 0,
     integral_limit |-> integral_limit_, output_limit |-> output_limit_]

\* mutant: a call with dt <= 0 returns 0 but clears the controller
calculateClearsOnBadDt(pid, error, dt) ==
    IF dt <= 0 THEN [out |-> 0, pid |-> [pid EXCEPT !.integral = 0, !.prev_error = 0]]
    ELSE LET p_term     == FxMul(pid.kp, error)
             integral   == Clamp(pid.integral + FxMul(error, dt),
                                 -pid.integral_limit, pid.integral_limit)
             i_term     == FxMul(pid.ki, integral)
             derivative == FxDiv(error - pid.prev_error, dt)
             d_term     == FxMul(pid.kd, derivative)
             out        == p_term + i_term + d_term
         IN  [out |-> Clamp(out, -pid.output_limit, pid.output_limit),
              pid |-> [pid EXCEPT !.integral = integral, !.prev_error = error]]

\* mutant: calculate without the windup clamp and the output clamp
calculateUnclamped(pid, error, dt) ==
    IF dt <= 0 THEN [out |-> 0, pid |-> pid]
    ELSE LET p_term     == FxMul(pid.kp, error)
             integral   == pid.integral + FxMul(error, dt)
             i_term     == FxMul(pid.ki, integral)
             derivative == FxDiv(error - pid.prev_error, dt)
             d_term     == FxMul(pid.kd, derivative)
             out        == p_term + i_term + d_term
         IN  [out |-> out,
              pid |-> [pid EXCEPT !.integral = integral, !.prev_error = error]]

\* PIDController::calculate: the output and the controller after the call
calculate(pid, error, dt) ==
    IF dt <= 0 THEN [out |-> 0, pid |-> pid]
    ELSE LET p_term     == FxMul(pid.kp, error)
             integral   == Clamp(pid.integral + FxMul(error, dt),
                                 -pid.integral_limit, pid.integral_limit)
             i_term     == FxMul(pid.ki, integral)
             derivative == FxDiv(error - pid.prev_error, dt)
             d_term     == FxMul(pid.kd, derivative)
             out        == p_term + i_term + d_term
         IN  [out |-> Clamp(out, -pid.output_limit, pid.output_limit),
              pid |-> [pid EXCEPT !.integral = integral, !.prev_error = error]]

\* mutant: reset clears the integral only
resetKeepsError(pid) == [pid EXCEPT !.integral = 0]

\* PIDController::reset
reset(pid) == [pid EXCEPT !.integral = 0, !.prev_error = 0]

\* PIDController::setGains
setGains(pid, p, i, d) == [pid EXCEPT !.kp = p, !.ki = i, !.kd = d]

(***************************************************************************)
(* Control law                                                             *)
(***************************************************************************)
Phase == {"GroundWait", "ClimbToCenter", "OnSphere"}

\* the declaration order of enum class Phase
PhaseOrd(p) == CASE p = "GroundWait" -> 0 [] p = "ClimbToCenter" -> 1 [] p = "OnSphere" -> 2

\* ControlConfig with its default member initialisers
ControlConfig ==
    [center |-> Vec3(0, 0, 50 * Unit), sphereRadius |-> 10 * Unit,
     groundWait |-> F64Five, maxForce |-> 20 * Unit,
     minSpeed |-> 2 * Unit, maxSpeed |-> 10 * Unit]

\* ControlState with its default member initialisers
ControlState ==
    [phase |-> "GroundWait", timeInPhase |-> F64Zero,
     visitedCenter |-> FALSE, tangentialDir |-> Vec3(Unit, 0, 0)]

\* mutant: the force goes out as computed
clampMagnitudeOff(v, maxMag) == v

clampMagnitude(v, maxMag) ==
    LET m == mag(v)
    IN  IF m <= maxMag \/ m < Eps8 THEN v ELSE VMul(v, FxDiv(maxMag, m))

\* state.timeInPhase += dt
AdvanceClock(state, dt) == [state EXCEPT !.timeInPhase = F64Add(@, dt.f64)]

\* mutant: > for >=
WaitOverStrict(state, cfg) == F64Less(cfg.groundWait, state.timeInPhase)

\* the GroundWait test: the wait is over
WaitOver(state, cfg) == ~F64Less(state.timeInPhase, cfg.groundWait)

\* mutant: the clock is not restarted
LeaveGroundKeepClock(state) == [state EXCEPT !.phase = "ClimbToCenter"]

\* the GroundWait transition
LeaveGround(state) ==
    [state EXCEPT !.phase = "ClimbToCenter", !.timeInPhase = F64Zero]

\* the arrival tolerance of ClimbToCenter
ArriveDist == 2 * Unit

\* the ClimbToCenter test: "close enough"
Arrived(pos, state, cfg) ==
    state.phase = "ClimbToCenter" /\ distance(pos, cfg.center) < ArriveDist

\* mutant: the wrong enumerator
EnterSphereWrongPhase(state) ==
    [state EXCEPT !.phase = "GroundWait", !.timeInPhase = F64Zero,
                  !.visitedCenter = TRUE]

\* the ClimbToCenter transition, on the control state
EnterSphere(state) ==
    [state EXCEPT !.phase = "OnSphere", !.timeInPhase = F64Zero,
                  !.visitedCenter = TRUE]

\* mutant: the controllers are not reset
ResetPIDsSkipped(pids) == pids

\* the ClimbToCenter transition, on the controllers
ResetPIDs(pids) ==
    [radialPID |-> reset(pids.radialPID), speedPID |-> reset(pids.speedPID)]

\* the speed above which the climb is damped
ClimbDampSpeed == 2 * Unit

\* the ClimbToCenter branch: force and controllers
ClimbForce(pos, vel, pids, cfg, dt) ==
    LET toCenter  == VSub(cfg.center, pos)
        r         == mag(toCenter)
        radialDir == normalized(toCenter)
        rad       == calculate(pids.radialPID, r, dt.fx)
        force     == VMul(radialDir, rad.out)
        speed     == mag(vel)
        damped    == IF speed > ClimbDampSpeed
                     THEN VSub(force, VMul(normalized(vel),
                                           FxMul(Unit \div 2, speed - ClimbDampSpeed)))
                     ELSE force
    IN  [force |-> clampMagnitude(damped, cfg.maxForce),
         pids  |-> [pids EXCEPT !.radialPID = rad.pid]]

\* radialDir x worldUp, with the fallback axis
Tangent(radialDir) ==
    LET worldUp == Vec3(0, 0, Unit)
        cross   == Vec3(FxMul(radialDir.y, worldUp.z) - FxMul(radialDir.z, worldUp.y),
                        FxMul(radialDir.z, worldUp.x) - FxMul(radialDir.x, worldUp.z),
                        FxMul(radialDir.x, worldUp.y) - FxMul(radialDir.y, worldUp.x))
    IN  normalized(IF mag(cross) < Eps3 THEN Vec3(Unit, 0, 0) ELSE cross)

\* the OnSphere branch: force, controllers and wander direction
SphereForce(pos, vel, pids, cfg, dt) ==
    LET toCenter    == VSub(cfg.center, pos)
        r           == mag(toCenter)
        radialDir   == normalized(toCenter)
        rad         == calculate(pids.radialPID, r - cfg.sphereRadius, dt.fx)
        radialForce == VMul(radialDir, -rad.out)
        tangent     == Tangent(radialDir)
        speed       == mag(vel)
        targetSpeed == FxMul(Unit \div 2, cfg.minSpeed + cfg.maxSpeed)
        spd         == calculate(pids.speedPID, targetSpeed - speed, dt.fx)
        totalForce  == VAdd(radialForce, VMul(tangent, spd.out))
    IN  [force   |-> clampMagnitude(totalForce, cfg.maxForce),
         pids    |-> [radialPID |-> rad.pid, speedPID |-> spd.pid],
         tangent |-> tangent]

\* computeControlForce: the force, and the control state and the controllers
\* as the call leaves them
computeControlForce(pos, vel, state, pids, cfg, dt) ==
    LET s1 == AdvanceClock(state, dt)
    IN  IF s1.phase = "GroundWait" /\ ~WaitOver(s1, cfg)
        THEN [force |-> Vec3(0, 0, 0), state |-> s1, pids |-> pids]
        ELSE LET s2 == IF s1.phase = "GroundWait" THEN LeaveGround(s1) ELSE s1
                 hit == Arrived(pos, s2, cfg)
                 s3 == IF hit THEN EnterSphere(s2) ELSE s2
                 p3 == IF hit THEN ResetPIDs(pids) ELSE pids
             IN  IF s3.phase = "ClimbToCenter"
                 THEN LET c == ClimbForce(pos, vel, p3, cfg, dt)
                      IN  [force |-> c.force, state |-> s3, pids |-> c.pids]
                 ELSE LET o == SphereForce(pos, vel, p3, cfg, dt)
                      IN  [force |-> o.force,
                           state |-> [s3 EXCEPT !.tangentialDir = o.tangent],
                           pids  |-> o.pids]

(***************************************************************************)
(* Agent runtime: class UAV                                                *)
(***************************************************************************)
\* sim::g and sim::mass
g == 10 * Unit

mass == 1 * Unit

\* const double dt = 0.01 of threadFunc, in its two images
Dt == [fx |-> Unit \div 100, f64 |-> F64Cent]

\* const double maxClimbSpeed = 2.0
maxClimbSpeed == 2 * Unit

\* the client threads: the GLUT thread of main() and one more thread
Callers == {"main", "aux"}

NoThread == <<"none", "none">>

WorkerOf(u) == <<"worker", u>>

CallerId(c) == <<"caller", c>>

\* UAV::Snapshot
Snapshot(p, v, a) == [pos |-> p, vel |-> v, acc |-> a]

\* a caller outside every call
NoFrame ==
    [op |-> "none", u |-> 0, v |-> Vec3(0, 0, 0), minDist |-> 0,
     snaps |-> <<>>, i |-> 0, j |-> 0, half |-> 0,
     ret |-> Snapshot(Vec3(0, 0, 0), Vec3(0, 0, 0), Vec3(0, 0, 0)),
     held |-> {}, pre |-> <<>>,
     error |-> 0, dt |-> 0, out |-> 0, at |-> <<>>]

VARIABLES
    position, velocity, acceleration,   \* the fields guarded by mtx, per agent
    mtx,            \* per agent: the thread that holds std::mutex mtx
    running,        \* per agent: std::atomic<bool> running
    worker,         \* per agent: std::thread worker is joinable
    cfg, ctrlState, pids,               \* per agent: the control members
    wpc,            \* per agent: where its execution unit is in threadFunc
    loc,            \* per agent: the locals pos, vel, motorForce, accel
    ticks,          \* per agent: calls of computeControlForce so far
    cpc, frame,     \* per caller: where it is, and its call's locals
    calls,          \* per caller: calls returned so far
    aborted,        \* std::terminate was called
    override,       \* history: per agent, the setVelocity value that is due at
                    \* the next step-1 read, or NoOverride
    stopReturned    \* history: per agent, a stop() has passed its last test or
                    \* wait and returns, and no execution unit was created since

shared == <<position, velocity, acceleration, mtx>>
control == <<cfg, ctrlState, pids>>
client == <<cpc, frame, calls>>
history == <<override, stopReturned>>
vars == <<position, velocity, acceleration, mtx, running, worker, cfg, ctrlState,
          pids, wpc, loc, ticks, cpc, frame, calls, aborted, override, stopReturned>>

UAVs == DOMAIN position

NoOverride == [set |-> FALSE, v |-> Vec3(0, 0, 0)]

\* the locals of threadFunc; clamped is history: the ground contact of the
\* iteration found the altitude negative
NoLocals ==
    [pos |-> Vec3(0, 0, 0), vel |-> Vec3(0, 0, 0),
     motorForce |-> Vec3(0, 0, 0), accel |-> Vec3(0, 0, 0), clamped |-> FALSE]

\* the default gains of UAV::UAV
DefaultPIDs ==
    [radialPID |-> PIDController(5 * Unit, 1 * Unit, Unit \div 2, 100 * Unit, 20 * Unit),
     speedPID  |-> PIDController((8 * Unit) \div 10, 0, 10 * Unit, 100 * Unit, 10 * Unit)]

\* the state after the agents are constructed: UAV::UAV(startPos, cfg_) for
\* agent u with startPos[u] and config[u], every client thread idle
Construct(startPos, config) ==
    /\ position = startPos
    /\ velocity = [u \in DOMAIN startPos |-> Vec3(0, 0, 0)]
    /\ acceleration = [u \in DOMAIN startPos |-> Vec3(0, 0, 0)]
    /\ mtx = [u \in DOMAIN startPos |-> NoThread]
    /\ running = [u \in DOMAIN startPos |-> FALSE]
    /\ worker = [u \in DOMAIN startPos |-> FALSE]
    /\ cfg = config
    /\ ctrlState = [u \in DOMAIN startPos |-> ControlState]
    /\ pids = [u \in DOMAIN startPos |-> DefaultPIDs]
    /\ wpc = [u \in DOMAIN startPos |-> "none"]
    /\ loc = [u \in DOMAIN startPos |-> NoLocals]
    /\ ticks = [u \in DOMAIN startPos |-> 0]
    /\ cpc = [c \in Callers |-> "idle"]
    /\ frame = [c \in Callers |-> NoFrame]
    /\ calls = [c \in Callers |-> 0]
    /\ aborted = FALSE
    /\ override = [u \in DOMAIN startPos |-> NoOverride]
    /\ stopReturned = [u \in DOMAIN startPos |-> FALSE]

\* std::lock_guard<std::mutex> lock(mtx): the constructor, by thread t
Lock(t, u) == mtx[u] = NoThread /\ mtx' = [mtx EXCEPT ![u] = t]

\* mutant: the guarded block ends and the guard stays held
UnlockLeaks(u) == mtx' = mtx

\* the destructor of the lock_guard
Unlock(u) == mtx' = [mtx EXCEPT ![u] = NoThread]

\* the snapshot reads in progress on agent u see the fields change to s
\* (history: the values the guarded fields held while a getSnapshot ran)
Observed(u, s) ==
    [c \in Callers |->
        IF cpc[c] \in {"gs_pos", "gs_vel", "gs_acc"} /\ frame[c].u = u
        THEN [frame[c] EXCEPT !.held = @ \cup {s}]
        ELSE frame[c]]

(***************************************************************************)
(* UAV::threadFunc, one action per step of the loop                        *)
(***************************************************************************)
\* while (running.load()); limit bounds the iterations of the model
WorkerWhile(u, limit) ==
    /\ wpc[u] = "while"
    /\ IF running[u]
       THEN ticks[u] < limit /\ wpc' = [wpc EXCEPT ![u] = "lock1"]
       ELSE wpc' = [wpc EXCEPT ![u] = "exited"]
    /\ UNCHANGED <<shared, running, worker, control, loc, ticks, client, aborted,
                   history>>

\* step 1: the lock_guard of the read
WorkerLockRead(u) ==
    /\ wpc[u] = "lock1"
    /\ Lock(WorkerOf(u), u)
    /\ wpc' = [wpc EXCEPT ![u] = "rd_pos"]
    /\ UNCHANGED <<position, velocity, acceleration, running, worker, control, loc,
                   ticks, client, aborted, history>>

\* pos = position
WorkerReadPos(u) ==
    /\ wpc[u] = "rd_pos"
    /\ loc' = [loc EXCEPT ![u].pos = position[u]]
    /\ wpc' = [wpc EXCEPT ![u] = "rd_vel"]
    /\ UNCHANGED <<shared, running, worker, control, ticks, client, aborted, history>>

\* mutant: the guard of the read stays held through the iteration
WorkerReadVelHolds(u) ==
    /\ wpc[u] = "rd_vel"
    /\ loc' = [loc EXCEPT ![u].vel = velocity[u]]
    /\ wpc' = [wpc EXCEPT ![u] = "control"]
    /\ override' = [override EXCEPT ![u] = NoOverride]
    /\ UNCHANGED <<position, velocity, acceleration, mtx, running, worker, control,
                   ticks, client, aborted, stopReturned>>

\* vel = velocity, and the end of the guarded block
WorkerReadVel(u) ==
    /\ wpc[u] = "rd_vel"
    /\ loc' = [loc EXCEPT ![u].vel = velocity[u]]
    /\ Unlock(u)
    /\ wpc' = [wpc EXCEPT ![u] = "control"]
    /\ override' = [override EXCEPT ![u] = NoOverride]
    /\ UNCHANGED <<position, velocity, acceleration, running, worker, control, ticks,
                   client, aborted, stopReturned>>

\* step 2: motorForce = computeControlForce(pos, vel, ctrlState, pids, cfg, dt)
WorkerControl(u) ==
    /\ wpc[u] = "control"
    /\ \E r \in {computeControlForce(loc[u].pos, loc[u].vel, ctrlState[u], pids[u],
                                     cfg[u], Dt)} :
           /\ loc' = [loc EXCEPT ![u].motorForce = r.force]
           /\ ctrlState' = [ctrlState EXCEPT ![u] = r.state]
           /\ pids' = [pids EXCEPT ![u] = r.pids]
    /\ ticks' = [ticks EXCEPT ![u] = @ + 1]
    /\ wpc' = [wpc EXCEPT ![u] = "physics"]
    /\ UNCHANGED <<shared, running, worker, cfg, client, aborted, history>>

\* step 3: accel = motorForce / mass + Vec3(0, 0, -g)
Accel(motorForce) == VAdd(VDiv(motorForce, mass), Vec3(0, 0, -g))

\* mutant: the ground contact stops the fall and keeps the velocity
GroundContactKeepsVel(pos, vel) ==
    IF pos.z < 0
    THEN [pos |-> [pos EXCEPT !.z = 0], vel |-> vel]
    ELSE [pos |-> pos, vel |-> vel]

\* mutant: no ground contact
GroundContactOff(pos, vel) == [pos |-> pos, vel |-> vel]

\* the ground contact of step 4, on the integrated pos and vel
GroundContact(pos, vel) ==
    IF pos.z < 0
    THEN [pos |-> [pos EXCEPT !.z = 0],
          vel |-> IF vel.z < 0 THEN [vel EXCEPT !.z = 0] ELSE vel]
    ELSE [pos |-> pos, vel |-> vel]

\* step 4: vel += accel * dt; pos += vel * dt
Euler(pos, vel, accel, dt) ==
    LET v1 == VAdd(vel, VMul(accel, dt.fx))
    IN  [pos |-> VAdd(pos, VMul(v1, dt.fx)), vel |-> v1]

\* steps 3 and 4, on the local copies
WorkerPhysics(u) ==
    /\ wpc[u] = "physics"
    /\ \E accel \in {Accel(loc[u].motorForce)} :
       \E e \in {Euler(loc[u].pos, loc[u].vel, accel, Dt)} :
       \E n \in {GroundContact(e.pos, e.vel)} :
           loc' = [loc EXCEPT ![u].accel = accel, ![u].pos = n.pos, ![u].vel = n.vel,
                              ![u].clamped = e.pos.z < 0]
    /\ wpc' = [wpc EXCEPT ![u] = "lock2"]
    /\ UNCHANGED <<shared, running, worker, control, ticks, client, aborted, history>>

\* step 5: the lock_guard of the write back
WorkerLockWrite(u) ==
    /\ wpc[u] = "lock2"
    /\ Lock(WorkerOf(u), u)
    /\ wpc' = [wpc EXCEPT ![u] = "wr_pos"]
    /\ UNCHANGED <<position, velocity, acceleration, running, worker, control, loc,
                   ticks, client, aborted, history>>

\* mutant: the speed limit applies in every phase
ClimbSpeedLimitAlways(vel, phase) ==
    LET speed == mag(vel)
    IN  IF speed > maxClimbSpeed /\ speed > Eps6
        THEN VMul(vel, FxDiv(maxClimbSpeed, speed))
        ELSE vel

\* the climb-phase speed limit on the local vel
ClimbSpeedLimit(vel, phase) ==
    IF phase = "ClimbToCenter"
    THEN LET speed == mag(vel)
         IN  IF speed > maxClimbSpeed /\ speed > Eps6
             THEN VMul(vel, FxDiv(maxClimbSpeed, speed))
             ELSE vel
    ELSE vel

\* the speed limit, then position = pos
WorkerWritePos(u) ==
    /\ wpc[u] = "wr_pos"
    /\ loc' = [loc EXCEPT ![u].vel = ClimbSpeedLimit(@, ctrlState[u].phase)]
    /\ position' = [position EXCEPT ![u] = loc[u].pos]
    /\ wpc' = [wpc EXCEPT ![u] = "wr_vel"]
    /\ UNCHANGED <<velocity, acceleration, mtx, running, worker, control, ticks, client,
                   aborted, history>>

\* velocity = vel
WorkerWriteVel(u) ==
    /\ wpc[u] = "wr_vel"
    /\ velocity' = [velocity EXCEPT ![u] = loc[u].vel]
    /\ wpc' = [wpc EXCEPT ![u] = "wr_acc"]
    /\ UNCHANGED <<position, acceleration, mtx, running, worker, control, loc, ticks,
                   client, aborted, history>>

\* acceleration = accel, and the end of the guarded block
WorkerWriteAcc(u) ==
    /\ wpc[u] = "wr_acc"
    /\ acceleration' = [acceleration EXCEPT ![u] = loc[u].accel]
    /\ Unlock(u)
    /\ wpc' = [wpc EXCEPT ![u] = "sleep"]
    /\ frame' = Observed(u, Snapshot(position[u], velocity[u], loc[u].accel))
    /\ UNCHANGED <<position, velocity, running, worker, control, loc, ticks, cpc, calls,
                   aborted, history>>

\* std::this_thread::sleep_for
WorkerSleep(u) ==
    /\ wpc[u] = "sleep"
    /\ wpc' = [wpc EXCEPT ![u] = "while"]
    /\ UNCHANGED <<shared, running, worker, control, loc, ticks, client, aborted,
                   history>>

\* the execution unit of agent u
Worker(u, limit) ==
    \/ WorkerWhile(u, limit)
    \/ WorkerLockRead(u)
    \/ WorkerReadPos(u)
    \/ WorkerReadVel(u)
    \/ WorkerControl(u)
    \/ WorkerPhysics(u)
    \/ WorkerLockWrite(u)
    \/ WorkerWritePos(u)
    \/ WorkerWriteVel(u)
    \/ WorkerWriteAcc(u)
    \/ WorkerSleep(u)

(***************************************************************************)
(* The public operations, called by the client threads.  A call is entered *)
(* from "idle", runs the steps of the function, and leaves through "ret".  *)
(***************************************************************************)
Enter(c, maxCalls, f, pc) ==
    /\ cpc[c] = "idle"
    /\ calls[c] < maxCalls
    /\ frame' = [frame EXCEPT ![c] = f]
    /\ cpc' = [cpc EXCEPT ![c] = pc]
    /\ UNCHANGED <<shared, running, worker, control, wpc, loc, ticks, calls, aborted,
                   history>>

\* the members of agent u
StateOf(u) ==
    [running |-> running[u], worker |-> worker[u], position |-> position[u],
     velocity |-> velocity[u], acceleration |-> acceleration[u],
     ctrlState |-> ctrlState[u], pids |-> pids[u]]

\* history: agent u as a stop() finds it; flag: a stop() has returned last
Entry(u, flag) == [flag |-> flag, state |-> StateOf(u)]

\* the call returns to a caller that goes on calling: as Return, and the
\* call does not count against the calls the model allows the thread
ReturnUncounted(c) ==
    /\ cpc[c] = "ret"
    /\ cpc' = [cpc EXCEPT ![c] = "idle"]
    /\ frame' = [frame EXCEPT ![c] = NoFrame]
    /\ UNCHANGED <<shared, running, worker, control, wpc, loc, ticks, calls, aborted,
                   history>>

\* the call returns to its caller
Return(c) ==
    /\ cpc[c] = "ret"
    /\ cpc' = [cpc EXCEPT ![c] = "idle"]
    /\ frame' = [frame EXCEPT ![c] = NoFrame]
    /\ calls' = [calls EXCEPT ![c] = @ + 1]
    /\ UNCHANGED <<shared, running, worker, control, wpc, loc, ticks, aborted, history>>

---------------------------------------------------------------------------
\* UAV::start; pre is history: the running flag as the call finds it
CallStart(c, u, maxCalls) ==
    Enter(c, maxCalls,
          [NoFrame EXCEPT !.op = "start", !.u = u, !.pre = [flag |-> running[u]]],
          "start_test")

\* mutant: start() without its test of the running flag
StartTestBlind(c) ==
    /\ cpc[c] = "start_test"
    /\ cpc' = [cpc EXCEPT ![c] = "start_set"]
    /\ UNCHANGED <<shared, running, worker, control, wpc, loc, ticks, frame, calls,
                   aborted, history>>

\* if (running.load()) return;
StartTest(c) ==
    /\ cpc[c] = "start_test"
    /\ cpc' = [cpc EXCEPT ![c] = IF running[frame[c].u] THEN "ret" ELSE "start_set"]
    /\ UNCHANGED <<shared, running, worker, control, wpc, loc, ticks, frame, calls,
                   aborted, history>>

\* running = true;
StartSet(c) ==
    /\ cpc[c] = "start_set"
    /\ running' = [running EXCEPT ![frame[c].u] = TRUE]
    /\ cpc' = [cpc EXCEPT ![c] = "start_spawn"]
    /\ UNCHANGED <<shared, worker, control, wpc, loc, ticks, frame, calls, aborted,
                   history>>

\* std::terminate: the process and all its threads are gone
Terminate ==
    /\ aborted' = TRUE
    /\ cpc' = [c \in Callers |-> "dead"]
    /\ wpc' = [u \in UAVs |-> "dead"]

\* worker = std::thread(&UAV::threadFunc, this); move assignment to a
\* joinable std::thread calls std::terminate
StartSpawn(c) ==
    /\ cpc[c] = "start_spawn"
    /\ LET u == frame[c].u
       IN  IF worker[u]
           THEN /\ Terminate
                /\ UNCHANGED <<worker, loc, stopReturned>>
           ELSE /\ worker' = [worker EXCEPT ![u] = TRUE]
                /\ wpc' = [wpc EXCEPT ![u] = "while"]
                /\ loc' = [loc EXCEPT ![u] = NoLocals]
                /\ cpc' = [cpc EXCEPT ![c] = "ret"]
                /\ stopReturned' = [stopReturned EXCEPT ![u] = FALSE]
                /\ UNCHANGED aborted
    /\ UNCHANGED <<shared, running, control, ticks, frame, calls, override>>

StartSteps(c) == StartTest(c) \/ StartSet(c) \/ StartSpawn(c)

---------------------------------------------------------------------------
\* UAV::stop
CallStop(c, u, maxCalls) ==
    Enter(c, maxCalls,
          [NoFrame EXCEPT !.op = "stop", !.u = u, !.pre = Entry(u, stopReturned[u])],
          "stop_test")

\* history: the stop() of caller c returns next, with nothing left to
\* wait for, exactly when done
Returning(c, done) ==
    /\ stopReturned' = IF done THEN [stopReturned EXCEPT ![frame[c].u] = TRUE]
                       ELSE stopReturned
    /\ UNCHANGED override

\* if (!running.load()) return;
StopTest(c) ==
    /\ cpc[c] = "stop_test"
    /\ cpc' = [cpc EXCEPT ![c] = IF running[frame[c].u] THEN "stop_clear" ELSE "ret"]
    /\ Returning(c, ~running[frame[c].u])
    /\ UNCHANGED <<shared, running, worker, control, wpc, loc, ticks, frame, calls,
                   aborted>>

\* mutant: stop() leaves the flag set and goes on to the join
StopClearKeeps(c) ==
    /\ cpc[c] = "stop_clear"
    /\ cpc' = [cpc EXCEPT ![c] = "stop_joinable"]
    /\ UNCHANGED <<shared, running, worker, control, wpc, loc, ticks, frame, calls,
                   aborted, history>>

\* running = false;
StopClear(c) ==
    /\ cpc[c] = "stop_clear"
    /\ running' = [running EXCEPT ![frame[c].u] = FALSE]
    /\ cpc' = [cpc EXCEPT ![c] = "stop_joinable"]
    /\ UNCHANGED <<shared, worker, control, wpc, loc, ticks, frame, calls, aborted,
                   history>>

\* mutant: stop() returns without the join
StopJoinableSkips(c) ==
    /\ cpc[c] = "stop_joinable"
    /\ cpc' = [cpc EXCEPT ![c] = "ret"]
    /\ Returning(c, TRUE)
    /\ UNCHANGED <<shared, running, worker, control, wpc, loc, ticks, frame, calls,
                   aborted>>

\* if (worker.joinable())
StopJoinable(c) ==
    /\ cpc[c] = "stop_joinable"
    /\ cpc' = [cpc EXCEPT ![c] = IF worker[frame[c].u] THEN "stop_join" ELSE "ret"]
    /\ Returning(c, ~worker[frame[c].u])
    /\ UNCHANGED <<shared, running, worker, control, wpc, loc, ticks, frame, calls,
                   aborted>>

\* worker.join(): returns once threadFunc has returned.  A join on a handle
\* that another caller has joined meanwhile is undefined: it returns, or it
\* throws std::system_error, which nothing catches
StopJoin(c) ==
    /\ cpc[c] = "stop_join"
    /\ LET u == frame[c].u
       IN  \/ /\ worker[u]
              /\ wpc[u] = "exited"
              /\ worker' = [worker EXCEPT ![u] = FALSE]
              /\ cpc' = [cpc EXCEPT ![c] = "ret"]
              /\ Returning(c, TRUE)
              /\ UNCHANGED <<wpc, aborted>>
           \/ /\ ~worker[u]
              /\ cpc' = [cpc EXCEPT ![c] = "ret"]
              /\ Returning(c, TRUE)
              /\ UNCHANGED <<worker, wpc, aborted>>
           \/ /\ ~worker[u]
              /\ Terminate
              /\ UNCHANGED <<worker, history>>
    /\ UNCHANGED <<shared, running, control, loc, ticks, frame, calls>>

StopSteps(c) == StopTest(c) \/ StopClear(c) \/ StopJoinable(c) \/ StopJoin(c)

---------------------------------------------------------------------------
\* the pair after (i, j) in the loops of checkAndResolveCollisions over n
\* agents, numbered from 1; i = n when the loops are over
NextPair(i, j, n) ==
    IF j < n THEN [i |-> i, j |-> j + 1] ELSE [i |-> i + 1, j |-> i + 2]

\* the pass goes on from pair (i, j): the next pair to test, or the return
AtPair(f, p, n) ==
    IF p.j <= n
    THEN [pc |-> "cr_pair", f |-> [f EXCEPT !.i = p.i, !.j = p.j, !.half = 0]]
    ELSE [pc |-> "ret", f |-> [f EXCEPT !.i = p.i, !.j = p.j, !.half = 0]]

\* UAV::setVelocity
CallSetVelocity(c, u, v, maxCalls) ==
    Enter(c, maxCalls, [NoFrame EXCEPT !.op = "setVelocity", !.u = u, !.v = v],
          "sv_lock")

SetVelocityLock(c) ==
    /\ cpc[c] = "sv_lock"
    /\ Lock(CallerId(c), frame[c].u)
    /\ cpc' = [cpc EXCEPT ![c] = "sv_write"]
    /\ UNCHANGED <<position, velocity, acceleration, running, worker, control, wpc,
                   loc, ticks, frame, calls, aborted, history>>

\* history: the value written is due at the next step-1 read when it lands
\* after the read of the running iteration, or replaces one that is due
Due(u, v) ==
    IF wpc[u] \in {"control", "physics", "lock2"} \/ override[u].set
    THEN [set |-> TRUE, v |-> v]
    ELSE override[u]

\* mutant: the second write of the swap takes snaps[j] again
AfterPairWriteSame(f, n) ==
    IF f.half = 1
    THEN [pc |-> "sv_lock",
          f |-> [f EXCEPT !.half = 2, !.u = f.j, !.v = f.snaps[f.j].vel]]
    ELSE AtPair(f, NextPair(f.i, f.j, n), n)

\* mutant: the second write of the swap takes the first agent's velocity
\* as it stands, not the one in the snapshot
AfterPairWriteLive(f, n) ==
    IF f.half = 1
    THEN [pc |-> "sv_lock",
          f |-> [f EXCEPT !.half = 2, !.u = f.j, !.v = velocity[f.i]]]
    ELSE AtPair(f, NextPair(f.i, f.j, n), n)

\* where a setVelocity made by the collision pass returns to
AfterPairWrite(f, n) ==
    IF f.half = 1
    THEN [pc |-> "sv_lock",
          f |-> [f EXCEPT !.half = 2, !.u = f.j, !.v = f.snaps[f.i].vel]]
    ELSE AtPair(f, NextPair(f.i, f.j, n), n)

\* mutant: setVelocity moves the agent as well
SetVelocityWriteMoves(c) ==
    /\ cpc[c] = "sv_write"
    /\ LET u    == frame[c].u
           v    == frame[c].v
           seen == Observed(u, Snapshot(position[u], v, acceleration[u]))
           next == IF frame[c].op = "collide"
                   THEN AfterPairWrite(seen[c], Cardinality(UAVs))
                   ELSE [pc |-> "ret", f |-> seen[c]]
       IN  /\ velocity' = [velocity EXCEPT ![u] = v]
           /\ position' = [position EXCEPT ![u] = VAdd(@, VMul(v, Dt.fx))]
           /\ Unlock(u)
           /\ override' = [override EXCEPT ![u] = Due(u, v)]
           /\ frame' = [seen EXCEPT ![c] = next.f]
           /\ cpc' = [cpc EXCEPT ![c] = next.pc]
    /\ UNCHANGED <<acceleration, running, worker, control, wpc, loc, ticks,
                   calls, aborted, stopReturned>>

\* mutant: the collision pass writes the position of its snapshot back
\* together with the velocity
SetVelocityWriteRestores(c) ==
    /\ cpc[c] = "sv_write"
    /\ LET u    == frame[c].u
           v    == frame[c].v
           seen == Observed(u, Snapshot(position[u], v, acceleration[u]))
           next == IF frame[c].op = "collide"
                   THEN AfterPairWrite(seen[c], Cardinality(UAVs))
                   ELSE [pc |-> "ret", f |-> seen[c]]
       IN  /\ velocity' = [velocity EXCEPT ![u] = v]
           /\ position' = [position EXCEPT
                               ![u] = IF frame[c].op = "collide"
                                      THEN frame[c].snaps[u].pos ELSE @]
           /\ Unlock(u)
           /\ override' = [override EXCEPT ![u] = Due(u, v)]
           /\ frame' = [seen EXCEPT ![c] = next.f]
           /\ cpc' = [cpc EXCEPT ![c] = next.pc]
    /\ UNCHANGED <<acceleration, running, worker, control, wpc, loc, ticks,
                   calls, aborted, stopReturned>>

\* velocity = v, and the end of the guarded block
SetVelocityWrite(c) ==
    /\ cpc[c] = "sv_write"
    /\ LET u    == frame[c].u
           v    == frame[c].v
           seen == Observed(u, Snapshot(position[u], v, acceleration[u]))
           next == IF frame[c].op = "collide"
                   THEN AfterPairWrite(seen[c], Cardinality(UAVs))
                   ELSE [pc |-> "ret", f |-> seen[c]]
       IN  /\ velocity' = [velocity EXCEPT ![u] = v]
           /\ Unlock(u)
           /\ override' = [override EXCEPT ![u] = Due(u, v)]
           /\ frame' = [seen EXCEPT ![c] = next.f]
           /\ cpc' = [cpc EXCEPT ![c] = next.pc]
    /\ UNCHANGED <<position, acceleration, running, worker, control, wpc, loc, ticks,
                   calls, aborted, stopReturned>>

SetVelocitySteps(c) == SetVelocityLock(c) \/ SetVelocityWrite(c)

---------------------------------------------------------------------------
\* UAV::getSnapshot
CallGetSnapshot(c, u, maxCalls) ==
    Enter(c, maxCalls, [NoFrame EXCEPT !.op = "getSnapshot", !.u = u], "gs_lock")

\* history: the guarded fields as they stand, unless a write back is half done
Standing(u) ==
    IF wpc[u] \in {"wr_vel", "wr_acc"} THEN {}
    ELSE {Snapshot(position[u], velocity[u], acceleration[u])}

\* mutant: getSnapshot without its lock_guard
GetSnapshotUnguarded(c) ==
    /\ cpc[c] = "gs_lock"
    /\ frame' = [frame EXCEPT ![c].held = Standing(frame[c].u)]
    /\ cpc' = [cpc EXCEPT ![c] = "gs_pos"]
    /\ UNCHANGED <<shared, running, worker, control, wpc, loc, ticks, calls, aborted,
                   history>>

\* history: the states the loop of agent u has published so far
Published(u) ==
    IF wpc[u] \in {"physics", "lock2", "wr_pos", "wr_vel", "wr_acc"}
    THEN ticks[u] - 1
    ELSE ticks[u]

\* history: the collision pass notes, for each snapshot it takes, how many
\* states the agent had published when the guard was acquired
Stamp(f) == IF f.op = "collide" THEN Append(f.at, Published(f.u)) ELSE f.at

GetSnapshotLock(c) ==
    /\ cpc[c] = "gs_lock"
    /\ Lock(CallerId(c), frame[c].u)
    /\ frame' = [frame EXCEPT ![c].held = Standing(frame[c].u),
                              ![c].at = Stamp(frame[c])]
    /\ cpc' = [cpc EXCEPT ![c] = "gs_pos"]
    /\ UNCHANGED <<position, velocity, acceleration, running, worker, control, wpc,
                   loc, ticks, calls, aborted, history>>

\* the copy of position into the returned Snapshot
GetSnapshotPos(c) ==
    /\ cpc[c] = "gs_pos"
    /\ frame' = [frame EXCEPT ![c].ret.pos = position[frame[c].u]]
    /\ cpc' = [cpc EXCEPT ![c] = "gs_vel"]
    /\ UNCHANGED <<shared, running, worker, control, wpc, loc, ticks, calls, aborted,
                   history>>

\* the copy of velocity
GetSnapshotVel(c) ==
    /\ cpc[c] = "gs_vel"
    /\ frame' = [frame EXCEPT ![c].ret.vel = velocity[frame[c].u]]
    /\ cpc' = [cpc EXCEPT ![c] = "gs_acc"]
    /\ UNCHANGED <<shared, running, worker, control, wpc, loc, ticks, calls, aborted,
                   history>>

\* where a getSnapshot made by the collision pass returns to: push_back, then
\* the next agent or the first pair
AfterSnapshot(f, n) ==
    LET snaps == Append(f.snaps, f.ret)
    IN  IF Len(snaps) < n
        THEN [pc |-> "gs_lock", f |-> [f EXCEPT !.snaps = snaps, !.u = f.u + 1]]
        ELSE AtPair([f EXCEPT !.snaps = snaps], [i |-> 1, j |-> 2], n)

\* the copy of acceleration, and the end of the guarded block
GetSnapshotAcc(c) ==
    /\ cpc[c] = "gs_acc"
    /\ LET u    == frame[c].u
           f    == [frame[c] EXCEPT !.ret.acc = acceleration[u]]
           next == IF f.op = "collide"
                   THEN AfterSnapshot(f, Cardinality(UAVs))
                   ELSE [pc |-> "ret", f |-> f]
       IN  /\ Unlock(u)
           /\ frame' = [frame EXCEPT ![c] = next.f]
           /\ cpc' = [cpc EXCEPT ![c] = next.pc]
    /\ UNCHANGED <<position, velocity, acceleration, running, worker, control, wpc,
                   loc, ticks, calls, aborted, history>>

GetSnapshotSteps(c) ==
    GetSnapshotLock(c) \/ GetSnapshotPos(c) \/ GetSnapshotVel(c) \/ GetSnapshotAcc(c)

---------------------------------------------------------------------------
\* checkAndResolveCollisions(uavs, minDist) over all the agents; pre is
\* history: the velocities when the pass is called
CallCollide(c, minDist, maxCalls) ==
    Enter(c, maxCalls,
          [NoFrame EXCEPT !.op = "collide", !.minDist = minDist, !.pre = velocity],
          "cr_size")

\* if (n < 2) return; then the first getSnapshot
CollideSize(c) ==
    /\ cpc[c] = "cr_size"
    /\ IF Cardinality(UAVs) < 2
       THEN cpc' = [cpc EXCEPT ![c] = "ret"] /\ UNCHANGED frame
       ELSE /\ cpc' = [cpc EXCEPT ![c] = "gs_lock"]
            /\ frame' = [frame EXCEPT ![c].u = 1]
    /\ UNCHANGED <<shared, running, worker, control, wpc, loc, ticks, calls, aborted,
                   history>>

\* the pair (i, j) is closer than minDist in the snapshots
Close(snaps, i, j, minDist) == distance(snaps[i].pos, snaps[j].pos) < minDist

\* the body of the loops for the pair (i, j): the distance test, and the
\* first setVelocity of the swap
CollidePair(c) ==
    /\ cpc[c] = "cr_pair"
    /\ LET f    == frame[c]
           next == IF Close(f.snaps, f.i, f.j, f.minDist)
                   THEN [pc |-> "sv_lock",
                         f |-> [f EXCEPT !.half = 1, !.u = f.i, !.v = f.snaps[f.j].vel]]
                   ELSE AtPair(f, NextPair(f.i, f.j, Cardinality(UAVs)),
                               Cardinality(UAVs))
       IN  /\ frame' = [frame EXCEPT ![c] = next.f]
           /\ cpc' = [cpc EXCEPT ![c] = next.pc]
    /\ UNCHANGED <<shared, running, worker, control, wpc, loc, ticks, calls, aborted,
                   history>>

CollideSteps(c) == CollideSize(c) \/ CollidePair(c)

---------------------------------------------------------------------------
\* A call by thread c on the radial controller of agent u, from outside the
\* control law.  The controller has no guard and the call is one step; the
\* frame keeps the call that was made last (its arguments in f, and pre: the
\* controller before the call), p is the controller after it.
PidCall(c, u, maxCalls, f, p) ==
    /\ cpc[c] = "idle"
    /\ calls[c] < maxCalls
    /\ pids' = [pids EXCEPT ![u].radialPID = p]
    /\ frame' = [frame EXCEPT ![c] = [f EXCEPT !.u = u, !.pre = pids[u].radialPID]]
    /\ calls' = [calls EXCEPT ![c] = @ + 1]
    /\ UNCHANGED <<shared, running, worker, cfg, ctrlState, wpc, loc, ticks, cpc,
                   aborted, history>>

\* pids.radialPID = PIDController(kp, ki, kd, integral_limit, output_limit)
PidAssign(c, u, gains, limits, maxCalls) ==
    PidCall(c, u, maxCalls, [NoFrame EXCEPT !.op = "PIDController"],
            PIDController(gains[1], gains[2], gains[3], limits[1], limits[2]))

\* pids.radialPID.setGains(p, i, d)
PidSetGains(c, u, gains, maxCalls) ==
    PidCall(c, u, maxCalls, [NoFrame EXCEPT !.op = "setGains"],
            setGains(pids[u].radialPID, gains[1], gains[2], gains[3]))

\* out = pids.radialPID.calculate(error, dt)
PidCalculate(c, u, error, dt, maxCalls) ==
    LET r == calculate(pids[u].radialPID, error, dt)
    IN  PidCall(c, u, maxCalls,
                [NoFrame EXCEPT !.op = "calculate", !.error = error, !.dt = dt,
                                !.out = r.out],
                r.pid)

\* pids.radialPID.reset()
PidReset(c, u, maxCalls) ==
    PidCall(c, u, maxCalls, [NoFrame EXCEPT !.op = "reset"], reset(pids[u].radialPID))

(***************************************************************************)
(* Specifications                                                          *)
(***************************************************************************)
\* loop iterations per agent, and calls per client thread
MaxTicks == 6
MaxCalls == 2

\* 0.02 = 2 * 0.01, exact
F64TwoCents == <<10486, 36700, 62914, 40>>

\* configurations a caller of UAV::UAV can pass: a short wait, and the
\* sphere center just outside, or inside, the arrival tolerance of the start
NearConfig ==
    [ControlConfig EXCEPT !.center = Vec3(0, 0, 2 * Unit + 2),
                          !.groundWait = F64TwoCents]

InsideConfig ==
    [ControlConfig EXCEPT !.center = Vec3(0, 0, 1 * Unit),
                          !.groundWait = F64TwoCents]

\* velocities a caller of setVelocity passes: faster than the climb limit,
\* and into the ground
VelInputs == {Vec3(3 * Unit, 0, 0), Vec3(0, 0, -Unit)}

\* One agent: main() starts it, and another thread overrides its velocity
\* and takes snapshots while it flies.
Init ==
    \E c \in {NearConfig, InsideConfig} : Construct(<<Vec3(0, 0, 0)>>, <<c>>)

Next ==
    \/ \E u \in UAVs : Worker(u, MaxTicks)
    \/ \E u \in UAVs : CallStart("main", u, 1)
    \/ StartSteps("main")
    \/ \E u \in UAVs, v \in VelInputs : CallSetVelocity("aux", u, v, MaxCalls)
    \/ SetVelocitySteps("aux")
    \/ \E u \in UAVs : CallGetSnapshot("aux", u, MaxCalls)
    \/ GetSnapshotSteps("aux")
    \/ \E c \in Callers : Return(c)

Spec == Init /\ [][Next]_vars

---------------------------------------------------------------------------
\* The scenario of 5.5 s of flight: one agent at the origin with the
\* default configuration, started and left alone.
ScenarioTicks == 55 * 10
ScenarioSlack == 2

InitScenario == Construct(<<Vec3(0, 0, 0)>>, <<ControlConfig>>)

NextScenario ==
    \/ \E u \in UAVs : Worker(u, ScenarioTicks + ScenarioSlack)
    \/ \E u \in UAVs : CallStart("main", u, 1)
    \/ StartSteps("main")
    \/ Return("main")

SpecScenario == InitScenario /\ [][NextScenario]_vars

---------------------------------------------------------------------------
\* Lifecycle: one agent, and two threads that call start() and stop() on it
\* in any order and at any time.
StopTicks == 2
StopCalls == 2

InitStop == Construct(<<Vec3(0, 0, 0)>>, <<NearConfig>>)

NextStop ==
    \/ \E u \in UAVs : Worker(u, StopTicks)
    \/ \E c \in Callers, u \in UAVs : CallStart(c, u, StopCalls)
    \/ \E c \in Callers : StartSteps(c)
    \/ \E c \in Callers, u \in UAVs : CallStop(c, u, StopCalls)
    \/ \E c \in Callers : StopSteps(c)
    \/ \E c \in Callers : Return(c)

SpecStop == InitStop /\ [][NextStop]_vars

---------------------------------------------------------------------------
\* The collision pass over agents that are not running: the GLUT thread
\* sets velocities and calls checkAndResolveCollisions(uavs, 0.01).
PassCalls == 3

\* minDist = 0.01, the default argument
DefaultMinDist == Unit \div 100

\* where three agents are constructed: 5 mm apart is closer than minDist
Here == Vec3(0, 0, 0)
Near == Vec3(5, 0, 0)
Far  == Vec3(2 * Unit, 0, 0)
Away == Vec3(0, 3 * Unit, 0)

Layouts ==
    {<<Here, Near, Far>>, <<Here, Far, Near>>, <<Far, Here, Near>>,
     <<Here, Far, Away>>, <<Here, Near, Here>>}

\* velocities the GLUT thread gives the agents before a pass
PassVels == {Vec3(Unit, 0, 0), Vec3(0, 2 * Unit, 0), Vec3(0, 0, 3 * Unit)}

InitPass ==
    \E l \in Layouts : Construct(l, [u \in DOMAIN l |-> ControlConfig])

NextPass ==
    \/ \E u \in UAVs, v \in PassVels : CallSetVelocity("main", u, v, PassCalls)
    \/ SetVelocitySteps("main")
    \/ CallCollide("main", DefaultMinDist, PassCalls + 1)
    \/ GetSnapshotSteps("main")
    \/ CollideSteps("main")
    \/ Return("main")

SpecPass == InitPass /\ [][NextPass]_vars

---------------------------------------------------------------------------
\* A controller on its own: one thread builds it, sets its gains, resets it
\* and calls calculate with any error and any dt, zero and negative included.
PidCalls == 3

\* gains (kp, ki, kd) and limits (integral_limit, output_limit), not negative
PidGains == {<<5 * Unit, 1 * Unit, Unit \div 2>>, <<-Unit, 2 * Unit, 3 * Unit>>}

PidLimits == {<<100 * Unit, 20 * Unit>>, <<1 * Unit, Unit \div 2>>, <<0, 0>>}

PidErrors == {-3 * Unit, 0, 2 * Unit}

PidDts == {-Dt.fx, 0, Dt.fx, 1 * Unit}

InitPid == Construct(<<Vec3(0, 0, 0)>>, <<ControlConfig>>)

NextPid ==
    \/ \E u \in UAVs, k \in PidGains, l \in PidLimits :
           PidAssign("main", u, k, l, PidCalls)
    \/ \E u \in UAVs, k \in PidGains : PidSetGains("main", u, k, PidCalls)
    \/ \E u \in UAVs, e \in PidErrors, d \in PidDts :
           PidCalculate("main", u, e, d, PidCalls)
    \/ \E u \in UAVs : PidReset("main", u, PidCalls)

SpecPid == InitPid /\ [][NextPid]_vars

---------------------------------------------------------------------------
\* The swarm: main() constructs two agents 5 mm apart, starts them, and its
\* timer runs the collision pass while they fly.
SwarmTicks == 2
SwarmCalls == 3

InitSwarm == Construct(<<Here, Near>>, <<NearConfig, NearConfig>>)

NextSwarm ==
    \/ \E u \in UAVs : Worker(u, SwarmTicks)
    \/ \E u \in UAVs : CallStart("main", u, SwarmCalls)
    \/ StartSteps("main")
    \/ CallCollide("main", DefaultMinDist, SwarmCalls)
    \/ GetSnapshotSteps("main")
    \/ CollideSteps("main")
    \/ SetVelocitySteps("main")
    \/ \E c \in Callers : Return(c)

SpecSwarm == InitSwarm /\ [][NextSwarm]_vars

---------------------------------------------------------------------------
\* Lifecycle, one caller: main() calls start() and stop() on one agent one
\* after the other, in any order, while the agent runs.
LifeTicks == 2
LifeCalls == 4

InitLife == Construct(<<Vec3(0, 0, 0)>>, <<NearConfig>>)

NextLife ==
    \/ \E u \in UAVs : Worker(u, LifeTicks)
    \/ \E u \in UAVs : CallStart("main", u, LifeCalls)
    \/ StartSteps("main")
    \/ \E u \in UAVs : CallStop("main", u, LifeCalls)
    \/ StopSteps("main")
    \/ Return("main")

SpecLife == InitLife /\ [][NextLife]_vars

---------------------------------------------------------------------------
\* Shutdown under load: main() starts an agent and stops it, while another
\* thread runs collision pass after collision pass (getSnapshot of every
\* agent, setVelocity on both agents of the close pair) without end.  The
\* threads are scheduled fairly, and an execution unit that waits for its
\* guard gets it when the guard is released again and again (strong
\* fairness).
HaltTicks == 1
HaltCalls == 2

HaltStart == <<Here, Near>>

\* the agents main() starts and stops; the other agent stays parked and
\* is reached by the collision pass only
HaltRun == {1}

InitHalt == Construct(HaltStart, [u \in DOMAIN HaltStart |-> ControlConfig])

NextHalt ==
    \/ \E u \in HaltRun : Worker(u, HaltTicks)
    \/ \E u \in HaltRun : CallStart("main", u, HaltCalls)
    \/ StartSteps("main")
    \/ \E u \in HaltRun : CallStop("main", u, HaltCalls)
    \/ StopSteps("main")
    \/ Return("main")
    \/ SetVelocitySteps("aux")
    \/ GetSnapshotSteps("aux")
    \/ CallCollide("aux", DefaultMinDist, HaltCalls)
    \/ CollideSteps("aux")
    \/ ReturnUncounted("aux")

SpecHalt ==
    /\ InitHalt
    /\ [][NextHalt]_vars
    /\ \A u \in HaltRun : SF_vars(Worker(u, HaltTicks))
    /\ WF_vars(StopSteps("main"))
    /\ WF_vars(SetVelocitySteps("aux") \/ GetSnapshotSteps("aux") \/ CollideSteps("aux"))

(***************************************************************************)
(* Claims                                                                  *)
(***************************************************************************)
\* the step of agent u's execution unit that ends the step-1 read
ReadDone(u) == wpc[u] = "rd_vel" /\ wpc'[u] = "control"

\* the step of agent u's execution unit that calls computeControlForce
ControlCall(u) == wpc[u] = "control" /\ wpc'[u] = "physics"

\* C1: a setVelocity(v) that lands between the step-1 read and the step-7
\* publish of an iteration is read back by step 1 of the following iteration
\* (v, or the value of a later setVelocity that replaced it).
C1_OverrideReadNext ==
    [][\A u \in UAVs :
          (ReadDone(u) /\ override[u].set) => loc'[u].vel = override[u].v]_vars

C5_PhaseForward ==
    [][\A u \in UAVs :
          PhaseOrd(ctrlState'[u].phase) >= PhaseOrd(ctrlState[u].phase)]_vars

\* an agent has gone through all three phases, has ticked on the sphere, and
\* its velocity was overridden on the way
C5_Witness ==
    \E u \in UAVs :
        /\ ctrlState[u].phase = "OnSphere"
        /\ ctrlState[u].timeInPhase # F64Zero
        /\ ticks[u] > 4
        /\ calls["aux"] > 0

\* C6: a call of computeControlForce leaves the phase where it was or moves
\* it to the immediate successor.
C6_NoSkip ==
    [][\A u \in UAVs :
          PhaseOrd(ctrlState'[u].phase) <= PhaseOrd(ctrlState[u].phase) + 1]_vars

\* C7: in GroundWait the force is zero on every tick whose incremented
\* timeInPhase is below groundWait; on the first tick that reaches groundWait
\* the agent leaves GroundWait, timeInPhase restarts at 0, and it never
\* comes back.
C7_GroundWait ==
    [][\A u \in UAVs :
          /\ (ControlCall(u) /\ ctrlState[u].phase = "GroundWait") =>
                IF F64Less(F64Add(ctrlState[u].timeInPhase, Dt.f64), cfg[u].groundWait)
                THEN /\ ctrlState'[u].phase = "GroundWait"
                     /\ loc'[u].motorForce = Vec3(0, 0, 0)
                ELSE /\ ctrlState'[u].phase # "GroundWait"
                     /\ ctrlState'[u].timeInPhase = F64Zero
          /\ ctrlState[u].phase # "GroundWait" => ctrlState'[u].phase # "GroundWait"]_vars

\* the second tick has just left GroundWait after one tick of zero force
C7_Witness ==
    \E u \in UAVs :
        /\ wpc[u] = "physics"
        /\ ticks[u] = 2
        /\ ctrlState[u].phase = "ClimbToCenter"
        /\ ctrlState[u].timeInPhase = F64Zero
        /\ loc[u].motorForce # Vec3(0, 0, 0)

\* the call of computeControlForce by agent u finds it in ClimbToCenter and
\* closer than 2.0 to the center
ArrivalCall(u) ==
    /\ ControlCall(u)
    /\ ctrlState[u].phase = "ClimbToCenter"
    /\ distance(loc[u].pos, cfg[u].center) < ArriveDist

\* C9 as stated: the arrival call ends in OnSphere with the integral
\* accumulators of both controllers at zero.
C9_IntegralsZero ==
    [][\A u \in UAVs :
          ArrivalCall(u) =>
              /\ ctrlState'[u].phase = "OnSphere"
              /\ pids'[u].radialPID.integral = 0
              /\ pids'[u].speedPID.integral = 0]_vars

\* C9 as amended: the arrival call ends in OnSphere, and what the two
\* controllers hold after it is the single OnSphere update of that call made
\* on a reset controller: integral = clamp(error * dt), prev_error = error.
C9_ArrivalResets ==
    [][\A u \in UAVs :
          ArrivalCall(u) =>
              LET r  == mag(VSub(cfg[u].center, loc[u].pos))
                  e1 == r - cfg[u].sphereRadius
                  e2 == FxMul(Unit \div 2, cfg[u].minSpeed + cfg[u].maxSpeed)
                            - mag(loc[u].vel)
                  p1 == pids'[u].radialPID
                  p2 == pids'[u].speedPID
              IN  /\ ctrlState'[u].phase = "OnSphere"
                  /\ ctrlState'[u].timeInPhase = F64Zero
                  /\ ctrlState'[u].visitedCenter
                  /\ p1.integral = Clamp(FxMul(e1, Dt.fx), -p1.integral_limit,
                                         p1.integral_limit)
                  /\ p1.prev_error = e1
                  /\ p2.integral = Clamp(FxMul(e2, Dt.fx), -p2.integral_limit,
                                         p2.integral_limit)
                  /\ p2.prev_error = e2]_vars

\* an agent that climbed for some ticks has just arrived
C9_Witness ==
    \E u \in UAVs :
        /\ wpc[u] = "physics"
        /\ ticks[u] > 2
        /\ ctrlState[u].phase = "OnSphere"
        /\ ctrlState[u].timeInPhase = F64Zero
        /\ pids[u].radialPID.integral # 0

\* C10: the force computeControlForce returns is never longer than maxForce.
C10_ForceBounded ==
    \A u \in UAVs : mag(loc[u].motorForce) <= cfg[u].maxForce

\* on the sphere both controllers saturate, and the force comes back cut to
\* maxForce (up to the rounding of its components)
C10_Witness ==
    \E u \in UAVs :
        /\ ctrlState[u].phase = "OnSphere"
        /\ loc[u].motorForce.x # 0
        /\ mag(loc[u].motorForce) > cfg[u].maxForce - Unit \div 10

\* once a stop() on agent u has returned, no step of u's execution unit
\* changes a field of the agent
Quiet(u) ==
    /\ position'[u] = position[u]
    /\ velocity'[u] = velocity[u]
    /\ acceleration'[u] = acceleration[u]
    /\ ctrlState'[u] = ctrlState[u]
    /\ pids'[u] = pids[u]

\* C2: after a stop() has returned, the execution unit writes no position,
\* velocity, acceleration, control state or PID state any more.
C2_NoWriteAfterStop ==
    [][\A u \in UAVs : (stopReturned[u] /\ wpc'[u] # wpc[u]) => Quiet(u)]_vars

\* the pairs the snapshots of a pass f show closer than minDist
ClosePairs(f) ==
    {p \in (1..Len(f.snaps)) \X (1..Len(f.snaps)) :
        p[1] < p[2] /\ Close(f.snaps, p[1], p[2], f.minDist)}

\* a pass over agents that are not running is about to return
PassDone(c) ==
    /\ cpc[c] = "ret"
    /\ frame[c].op = "collide"
    /\ \A u \in UAVs : wpc[u] \in {"none", "exited"}

\* C3: with exactly one close pair, the pass leaves the two with each
\* other's velocity from before the call and every other agent's unchanged.
C3_Swap ==
    \A c \in Callers :
        (PassDone(c) /\ Cardinality(ClosePairs(frame[c])) = 1) =>
            \A p \in ClosePairs(frame[c]) :
                /\ velocity[p[1]] = frame[c].pre[p[2]]
                /\ velocity[p[2]] = frame[c].pre[p[1]]
                /\ \A o \in UAVs \ {p[1], p[2]} : velocity[o] = frame[c].pre[o]

\* a pass has swapped two different velocities and left a third, different
\* from both, alone
C3_Witness ==
    \E c \in Callers :
        /\ PassDone(c)
        /\ Cardinality(ClosePairs(frame[c])) = 1
        /\ \A a, b \in UAVs : a # b => frame[c].pre[a] # frame[c].pre[b]

\* C8: after 550 iterations from the ground with the default configuration
\* the agent is in ClimbToCenter with timeInPhase < 0.5.
C8_Scenario ==
    \A u \in UAVs :
        ticks[u] = ScenarioTicks =>
            /\ ctrlState[u].phase = "ClimbToCenter"
            /\ F64Less(ctrlState[u].timeInPhase, F64Half)

\* iteration 550 is complete, and the agent is off the ground
C8_Witness ==
    \E u \in UAVs :
        /\ ticks[u] = ScenarioTicks
        /\ wpc[u] = "sleep"
        /\ position[u].z > 0

---------------------------------------------------------------------------
\* the controller the calls of SpecPid act on
Radial(u) == pids[u].radialPID

\* C11: a calculate call with dt <= 0 returns 0 and leaves the controller as
\* it was, the integral accumulator and the previous error included.
C11_BadDt ==
    \A c \in Callers :
        (frame[c].op = "calculate" /\ frame[c].dt <= 0) =>
            /\ frame[c].out = 0
            /\ Radial(frame[c].u) = frame[c].pre

\* a call with dt <= 0 and a nonzero error on a controller that holds a
\* nonzero integral and previous error
C11_Witness ==
    \E c \in Callers :
        /\ frame[c].op = "calculate"
        /\ frame[c].dt <= 0
        /\ frame[c].error # 0
        /\ frame[c].pre.integral # 0
        /\ frame[c].pre.prev_error # 0

\* C12: with limits that are not negative, the integral accumulator stays
\* within +-integral_limit and every output within +-output_limit, after any
\* sequence of calls.
C12_Bounded ==
    \A u \in UAVs :
        /\ Abs(Radial(u).integral) <= Radial(u).integral_limit
        /\ \A c \in Callers :
               (frame[c].op = "calculate" /\ frame[c].u = u) =>
                   Abs(frame[c].out) <= Radial(u).output_limit

\* a call that the windup clamp and the output clamp both cut
C12_Witness ==
    \E c \in Callers :
        LET pid == Radial(1)
        IN  /\ frame[c].op = "calculate"
            /\ pid.integral_limit > 0
            /\ Abs(frame[c].pre.integral + FxMul(frame[c].error, frame[c].dt))
                   > pid.integral_limit
            /\ Abs(pid.integral) = pid.integral_limit
            /\ Abs(frame[c].out) = pid.output_limit

\* C13: reset() changes the integral accumulator and the previous error
\* only, and the calculate(0, dt) that follows it returns 0.
C13_Reset ==
    [][\A c \in Callers :
          /\ frame'[c].op = "reset" =>
                 pids'[frame'[c].u].radialPID =
                     [frame'[c].pre EXCEPT !.integral = 0, !.prev_error = 0]
          /\ (frame[c].op = "reset" /\ frame'[c].op = "calculate"
                  /\ frame'[c].error = 0) => frame'[c].out = 0]_vars

\* calculate(0, dt) with dt > 0 and nonzero gains, right after the reset of
\* a controller that had accumulated
C13_Witness ==
    \E c \in Callers :
        /\ frame[c].op = "calculate"
        /\ frame[c].error = 0
        /\ frame[c].dt > 0
        /\ frame[c].pre = [Radial(1) EXCEPT !.integral = 0, !.prev_error = 0]
        /\ Radial(1).kd # 0
        /\ calls[c] = PidCalls

---------------------------------------------------------------------------
\* the threads of the model
Threads == {WorkerOf(u) : u \in UAVs} \cup {CallerId(c) : c \in Callers}

\* the guards thread t holds
Holds(t) == {u \in UAVs : mtx[u] = t}

\* the agent whose guard thread t is about to acquire, as a set
WaitsFor(t) ==
    IF t[1] = "worker"
    THEN IF wpc[t[2]] \in {"lock1", "lock2"} THEN {t[2]} ELSE {}
    ELSE IF cpc[t[2]] \in {"sv_lock", "gs_lock"} THEN {frame[t[2]].u} ELSE {}

\* thread t is inside a guarded block, at a statement that needs nothing to
\* go on
InBlock(t) ==
    IF t[1] = "worker"
    THEN wpc[t[2]] \in {"rd_pos", "rd_vel", "wr_pos", "wr_vel", "wr_acc"}
    ELSE cpc[t[2]] \in {"sv_write", "gs_pos", "gs_vel", "gs_acc"}

\* C14: no thread holds the guards of two agents, the execution unit of an
\* agent holds no guard but its own, and a thread that holds a guard is
\* inside its guarded block and waits for no guard, so that every waiting
\* thread waits for one that can go on (no deadlock).
C14_Guards ==
    \A t \in Threads :
        /\ Cardinality(Holds(t)) <= 1
        /\ t[1] = "worker" => Holds(t) \subseteq {t[2]}
        /\ Holds(t) # {} => (WaitsFor(t) = {} /\ InBlock(t))

\* the collision pass waits for the guard of the second agent while that
\* agent's execution unit holds it, and the first agent runs too
C14_Witness ==
    /\ cpc["main"] = "gs_lock"
    /\ frame["main"].op = "collide"
    /\ frame["main"].u = 2
    /\ mtx[2] = WorkerOf(2)
    /\ wpc[1] \in {"lock1", "lock2"}

---------------------------------------------------------------------------
\* the execution unit of agent u exists: created, and not yet returned from
\* threadFunc
Alive(u) == wpc[u] \notin {"none", "exited", "dead"}

\* C15: a start() that finds the agent running returns at once and changes
\* nothing, and an execution unit is created only while none exists.
C15_StartIdempotent ==
    [][/\ \A c \in Callers :
              (cpc[c] = "start_test" /\ running[frame[c].u]
                  /\ cpc'[c] \notin {"start_test", "dead"}) =>
                      /\ cpc'[c] = "ret"
                      /\ UNCHANGED <<shared, running, worker, control, wpc, loc,
                                     ticks, aborted>>
       /\ \A u \in UAVs :
              (wpc'[u] = "while" /\ wpc[u] \notin {"sleep", "while"}) =>
                  (~Alive(u) /\ ~worker[u])
       /\ ~aborted']_vars

\* a start() made on the running agent, after an earlier call, is returning
\* while the execution unit is in its second iteration
C15_Witness ==
    /\ cpc["main"] = "ret"
    /\ frame["main"].op = "start"
    /\ frame["main"].pre.flag
    /\ calls["main"] >= 1
    /\ ticks[1] = 2
    /\ wpc[1] = "physics"

\* C16: a stop() made after a stop() has returned, with no start() between
\* them, raises no error and leaves the agent as it found it.
C16_StopIdempotent ==
    \A c \in Callers :
        (frame[c].op = "stop" /\ frame[c].pre.flag) =>
            /\ ~aborted
            /\ StateOf(frame[c].u) = frame[c].pre.state

\* the second stop() returns on an agent that ran and was joined by the first
C16_Witness ==
    /\ cpc["main"] = "ret"
    /\ frame["main"].op = "stop"
    /\ frame["main"].pre.flag
    /\ ticks[1] >= 1
    /\ wpc[1] = "exited"
    /\ ~worker[1]

---------------------------------------------------------------------------
\* thread c is inside setVelocity or checkAndResolveCollisions, or enters or
\* leaves one of them, in this step
InVelocityCall(c) ==
    \/ frame[c].op \in {"setVelocity", "collide"}
    \/ frame'[c].op \in {"setVelocity", "collide"}

\* C17: no step of setVelocity or of the collision pass changes a position
\* or an acceleration, or any member but the velocities.
C17_VelocityOnly ==
    [][(\E c \in Callers : InVelocityCall(c)) =>
          UNCHANGED <<position, acceleration, running, worker, control>>]_vars

\* a pass over agents with a close pair has changed velocities,
\* and every agent is where it was constructed
C17_Witness ==
    /\ PassDone("main")
    /\ ClosePairs(frame["main"]) # {}
    /\ velocity # frame["main"].pre
    /\ position \in Layouts
    /\ \A u \in UAVs : acceleration[u] = Vec3(0, 0, 0)

---------------------------------------------------------------------------
\* C18: the velocity an iteration publishes is the integrated one, cut to
\* the climb speed limit when the iteration ends in ClimbToCenter and as it
\* is in the other phases.
C18_ClimbSpeed ==
    [][\A u \in UAVs :
          /\ (wpc[u] = "wr_pos" /\ wpc'[u] = "wr_vel") =>
                 IF ctrlState[u].phase = "ClimbToCenter"
                 THEN mag(loc'[u].vel) <= maxClimbSpeed
                 ELSE loc'[u].vel = loc[u].vel
          /\ (wpc[u] = "wr_vel" /\ wpc'[u] = "wr_acc") =>
                 /\ velocity'[u] = loc[u].vel
                 /\ ctrlState[u].phase = "ClimbToCenter" =>
                        mag(velocity'[u]) <= maxClimbSpeed]_vars

\* an iteration that read a velocity of 3 has published one cut to the
\* limit, in ClimbToCenter
C18_Witness ==
    \E u \in UAVs :
        /\ wpc[u] = "wr_acc"
        /\ ctrlState[u].phase = "ClimbToCenter"
        /\ velocity[u].x > Unit
        /\ mag(velocity[u]) <= maxClimbSpeed
        /\ mag(velocity[u]) > maxClimbSpeed - Unit \div 10

\* an iteration in another phase has published a velocity above the limit
C18_WitnessFast ==
    \E u \in UAVs :
        /\ wpc[u] = "wr_acc"
        /\ ctrlState[u].phase # "ClimbToCenter"
        /\ mag(velocity[u]) > maxClimbSpeed

---------------------------------------------------------------------------
\* C19: the published altitude is never negative, and an iteration whose
\* ground contact found the altitude negative publishes altitude 0 and a
\* vertical velocity that is not negative.
C19_Ground ==
    [][\A u \in UAVs :
          /\ position'[u].z >= 0
          /\ (wpc[u] = "wr_vel" /\ wpc'[u] = "wr_acc" /\ loc[u].clamped) =>
                 /\ position'[u].z = 0
                 /\ velocity'[u].z >= 0]_vars

\* an agent that has left the ground phase was sent down by setVelocity,
\* and the iteration that hit the ground has published
C19_Witness ==
    \E u \in UAVs :
        /\ wpc[u] = "wr_acc"
        /\ loc[u].clamped
        /\ ctrlState[u].phase # "GroundWait"
        /\ position[u].z = 0
        /\ velocity[u].z = 0

---------------------------------------------------------------------------
\* C20: when the collision pass captures the snapshot of agent j, every
\* agent i captured before it in the same pass has published at most one
\* state since its own capture.
C20_SnapshotAge ==
    [][\A c \in Callers :
          (frame[c].op = "collide" /\ cpc[c] = "gs_lock" /\ cpc'[c] = "gs_pos") =>
              \A i \in 1..Len(frame[c].at) :
                  Published(i) - frame[c].at[i] <= 1]_vars

---------------------------------------------------------------------------
\* the agents that are in a close pair with agent u in the snapshots of f
Partners(f, u) == {o \in UAVs : <<u, o>> \in ClosePairs(f) \/ <<o, u>> \in ClosePairs(f)}

\* the largest element of a nonempty set of agents
Highest(S) == CHOOSE o \in S : \A q \in S : q <= o

\* C21: every velocity the pass writes is the snapshot velocity of the
\* other agent of the pair, and when the pass is over an agent in close
\* pairs has the snapshot velocity of its highest-indexed partner.
C21_MultiPair ==
    [][\A c \in Callers :
          /\ (frame[c].op = "collide" /\ cpc[c] = "sv_write" /\ cpc'[c] # "sv_write") =>
                 LET f == frame[c]
                     o == IF f.u = f.i THEN f.j ELSE f.i
                 IN  /\ velocity'[f.u] = f.snaps[o].vel
                     /\ f.snaps[o].vel = f.pre[o]
          /\ PassDone(c)' =>
                 \A u \in UAVs :
                     Partners(frame'[c], u) # {} =>
                         velocity'[u] =
                             frame'[c].snaps[Highest(Partners(frame'[c], u))].vel]_vars

\* a pass over three agents that are all within minDist of each other, with
\* three different velocities, is over
C21_Witness ==
    /\ PassDone("main")
    /\ Cardinality(ClosePairs(frame["main"])) = 3
    /\ Cardinality({frame["main"].pre[u] : u \in UAVs}) = 3
    /\ velocity[1] = frame["main"].pre[3]
    /\ velocity[3] = frame["main"].pre[2]

---------------------------------------------------------------------------
\* C22: the execution unit of an agent holds the agent's guard only inside
\* the read block and the write-back block of its loop.
C22_GuardBrief ==
    \A u \in UAVs :
        mtx[u] = WorkerOf(u) =>
            wpc[u] \in {"rd_pos", "rd_vel", "wr_pos", "wr_vel", "wr_acc"}

\* a setVelocity of the collision pass holds the guard of an agent whose
\* execution unit is between its read and its write back
C22_Witness ==
    \E u \in UAVs :
        /\ mtx[u] = CallerId("main")
        /\ cpc["main"] = "sv_write"
        /\ wpc[u] \in {"control", "physics", "lock2"}

---------------------------------------------------------------------------
\* C23: a stop() that finds the agent running returns, whatever the other
\* thread keeps calling.
C23_StopReturns ==
    (cpc["main"] = "stop_clear") ~> (cpc["main"] = "ret" /\ frame["main"].op = "stop")

\* the stop() has returned after the join of an execution unit that it
\* interrupted, while the pass of the other thread is inside a setVelocity
\* on that agent
C23_Witness ==
    /\ cpc["main"] = "ret"
    /\ frame["main"].op = "stop"
    /\ wpc[1] = "exited"
    /\ ~worker[1]
    /\ ticks[1] >= 1
    /\ cpc["aux"] = "sv_write"
    /\ frame["aux"].op = "collide"
    /\ frame["aux"].u = 1

---------------------------------------------------------------------------
\* C24: an agent built at rest on the ground that nobody overrides stays
\* there through GroundWait: every iteration that ends in GroundWait
\* publishes the start position and a zero velocity, with the acceleration
\* of gravity.
C24_Stationary ==
    [][\A u \in UAVs :
          (wpc[u] = "wr_acc" /\ wpc'[u] = "sleep" /\ ctrlState[u].phase = "GroundWait") =>
              /\ position'[u] = Vec3(0, 0, 0)
              /\ velocity'[u] = Vec3(0, 0, 0)
              /\ acceleration'[u] = Vec3(0, 0, -g)]_vars

\* the second iteration in GroundWait has published: gravity pulled the
\* local copy under the ground and the ground contact put it back
C24_Witness ==
    /\ wpc[1] = "sleep"
    /\ ticks[1] >= 2
    /\ ctrlState[1].phase = "GroundWait"
    /\ loc[1].clamped
    /\ loc[1].accel = Vec3(0, 0, -g)
    /\ position[1] = Vec3(0, 0, 0)
    /\ velocity[1] = Vec3(0, 0, 0)

---------------------------------------------------------------------------
\* C25: no position update is lost.  Only the write back of the agent's own
\* execution unit changes its position, it stores the position that unit
\* integrated, and the integration starts from the position that is
\* published at that moment (the one the previous iteration wrote).
C25_NoLostUpdate ==
    [][\A u \in UAVs :
          /\ position'[u] # position[u] =>
                 /\ wpc[u] = "wr_pos" /\ wpc'[u] = "wr_vel"
                 /\ mtx[u] = WorkerOf(u)
                 /\ position'[u] = loc[u].pos
          /\ (wpc[u] = "physics" /\ wpc'[u] = "lock2") =>
                 /\ position[u] = loc[u].pos
                 /\ loc'[u].pos =
                        LET e == Euler(position[u], loc[u].vel, Accel(loc[u].motorForce), Dt)
                        IN  GroundContact(e.pos, e.vel).pos]_vars

\* an agent has left its start position while a collision pass that took
\* its snapshot before is about to write its velocity
C25_Witness ==
    \E u \in UAVs :
        /\ position[u] # <<Here, Near>>[u]
        /\ cpc["main"] = "sv_write"
        /\ frame["main"].op = "collide"
        /\ frame["main"].u = u
        /\ frame["main"].snaps[u].pos # position[u]

====
